---------------------------- MODULE Spec2Model ----------------------------
(***************************************************************************)
(* Model of the resource upload code of the charm store client             *)
(* (package charmcmd): uploadFileResource with its upload-identifier       *)
(* cache, readSeekerSHA256, and uploadExternalDockerResource with          *)
(* imageDigestForReference, as state machines with one action per step of  *)
(* each function.                                                          *)
(*                                                                         *)
(* The charm store (csclient.ResumeUploadResource / UploadResource) is the *)
(* environment: it answers every transfer call nondeterministically within *)
(* its interface contract.  Time is a clock in hours that advances in      *)
(* steps of TickHours.                                                     *)
(***************************************************************************)
EXTENDS Naturals, Integers, Sequences, FiniteSets, TLC

----------------------------------------------------------------------------
(* Bounds and input sets *)

NumProcs == 2           \* process slots (independent invocations of the CLI)
MaxInvocations == 3     \* invocations started in one behaviour
MaxTime == 96           \* the clock stops here (hours)
TickHours == 48         \* granularity of the clock (hours)

Procs == 1..NumProcs
SeqProcs == {1}         \* the slot used when invocations run one after another

(* what an invocation may be asked to upload: charm, resource name and the *)
(* content of the local file *)
Uploads == {<<"cs:wordpress", "data", "A">>,
            <<"cs:wordpress", "data", "B">>}
CachePaths == {"", "cache"}     \* "" = no cache configured

(* time.Hour units: uploadIdCacheExpiryDuration = 48 * time.Hour *)
uploadIdCacheExpiryDuration == 48

(* the zero value of `var uploadId string` *)
NoUploadId == 0

(* error kinds *)
NoErr == "nil"
errCacheEntryNotFound == "cache entry not found"
ErrUploadNotFound == "upload not found"
ErrOther == "error"

----------------------------------------------------------------------------
VARIABLES
    cache,          \* the persisted upload-id cache: a set of entries
    now,            \* the clock, in hours
    nextUploadId,   \* the store's next fresh upload identifier
    revision,       \* the store's latest resource revision
    started,        \* number of invocations started so far
    pc,             \* pc[p]: position of invocation p in uploadFileResource
    param,          \* param[p]: uploadResourceParams + the file's content
    contentHash,    \* contentHash[p]: local variable contentHash
    uploadId,       \* uploadId[p]: local variable uploadId
    cbId,           \* cbId[p]: the identifier handed to the callback
    rev,            \* rev[p]: local variable rev
    result,         \* result[p]: what the invocation returned
    trace,          \* trace[p]: the operations invocation p has performed
    prev,           \* prev[p]: summary of the invocation that ran in slot
                    \*          p before the current one
    recorded,       \* every <<uploadId, charmId, resourceName, hash>> that
                    \* an Update has written so far
    (* readSeekerSHA256 *)
    rContent,       \* the bytes of the source r
    rPos,           \* the read position of r
    hPc,            \* position in readSeekerSHA256
    hashed,         \* the bytes written to the hasher so far
    hResult,        \* what readSeekerSHA256 returned
    (* uploadExternalDockerResource, imageDigestForReference *)
    ref,            \* the parsed image reference
    dPc,            \* position in uploadExternalDockerResource
    resp,           \* local variable resp: the last HTTP response
    digest,         \* local variable digest
    requests,       \* the HTTP exchanges made with the registry so far
    dResult,        \* what imageDigestForReference and then
                    \* uploadExternalDockerResource returned
    registered,     \* the AddDockerResource calls made to the store
    (* serverURL, newCharmStoreClient *)
    environ,        \* the environment variable JUJU_CHARMSTORE
    csclientServerURL,  \* the package variable csclientServerURL
    csClient,       \* what newCharmStoreClient returned
    (* uploadResource *)
    driver          \* the call of uploadResource and what it selected

uploadVars == <<cache, now, nextUploadId, revision, started, pc, param,
                contentHash, uploadId, cbId, rev, result, trace, prev,
                recorded>>

hasherVars == <<rContent, rPos, hPc, hashed, hResult>>

dockerVars == <<ref, dPc, resp, digest, requests, dResult, registered>>

(* the variables uploadFileResource leaves alone *)
cmdVars == <<environ, csclientServerURL, csClient>>

driverVars == <<driver>>

otherVars == <<hasherVars, dockerVars, cmdVars, driverVars>>

vars == <<uploadVars, otherVars>>

----------------------------------------------------------------------------
(* Content Hasher *)

NoHash == <<>>

(* sha256 of the content; distinct contents have distinct digests *)
SHA256_const(content) == <<"sha256", "">>

SHA256(content) == <<"sha256", content>>

----------------------------------------------------------------------------
(* Upload-identifier cache *)

SameKey(e, charmId, resourceName, hash) ==
    /\ e.CharmId = charmId
    /\ e.ResourceName = resourceName
    /\ e.Sha256 = hash

Expired(e, t) == t - e.CreatedAt > uploadIdCacheExpiryDuration

(* RemoveExpiredEntries: drop every entry older than the expiry duration *)
RemoveExpiredEntries(c, t) == {e \in c : ~Expired(e, t)}

(* Lookup: the unexpired entries stored under exactly this key *)
Lookup_stale(c, charmId, resourceName, hash, t) ==
    {e \in c : SameKey(e, charmId, resourceName, hash)}

Lookup(c, charmId, resourceName, hash, t) ==
    {e \in c : SameKey(e, charmId, resourceName, hash) /\ ~Expired(e, t)}

(* Update: insert or overwrite the entry of the key, with a fresh timestamp *)
Update_keep(c, id, charmId, resourceName, hash, t) ==
    c \cup {[CharmId |-> charmId, ResourceName |-> resourceName,
             Sha256 |-> hash, UploadId |-> id, CreatedAt |-> t]}

Update(c, id, charmId, resourceName, hash, t) ==
    {e \in c : ~SameKey(e, charmId, resourceName, hash)}
        \cup {[CharmId |-> charmId, ResourceName |-> resourceName,
               Sha256 |-> hash, UploadId |-> id, CreatedAt |-> t]}

(* Remove: delete the entry of the key, if any *)
Remove(c, charmId, resourceName, hash) ==
    {e \in c : ~SameKey(e, charmId, resourceName, hash)}

(* the error Remove returns when the cache file can be written: none, also *)
(* when the key has no entry                                               *)
RemoveErr_notfound(c, charmId, resourceName, hash) ==
    IF \E e \in c : SameKey(e, charmId, resourceName, hash)
    THEN NoErr ELSE errCacheEntryNotFound

RemoveErr(c, charmId, resourceName, hash) == NoErr

----------------------------------------------------------------------------
(* Helpers *)

NoParam == [charmId |-> "", resourceName |-> "", content |-> "",
            cachePath |-> ""]
NoResult == [rev |-> 0, err |-> NoErr]

(* what is remembered of the invocation that ran before the current one:   *)
(* its parameters, the content hash it computed, its error, the identifier *)
(* its callback was given, the identifier its Update stored (0 if none)    *)
(* and when, and whether it removed its cache entry                        *)
NoPrev == [param |-> NoParam, hash |-> NoHash, err |-> NoErr, cbId |-> 0,
           updId |-> 0, updAt |-> 0, removed |-> FALSE, ran |-> FALSE]

(* one operation in the trace of an invocation *)
Op(name, id, err, t) == [op |-> name, id |-> id, err |-> err, at |-> t]

Log(p, e) == trace' = [trace EXCEPT ![p] = Append(@, e)]

(* the operations called `name` in a trace, and those that succeeded *)
Ops(tr, name) == {i \in DOMAIN tr : tr[i].op = name}
OkOps(tr, name) == {i \in Ops(tr, name) : tr[i].err = NoErr}

Summary(p) ==
    LET upd == Ops(trace[p], "update")
        last == IF upd = {} THEN 0
                ELSE CHOOSE i \in upd : \A j \in upd : j <= i
    IN [param |-> param[p], hash |-> contentHash[p],
        err |-> result[p].err, cbId |-> cbId[p],
        updId |-> IF last # 0 /\ trace[p][last].err = NoErr
                  THEN trace[p][last].id ELSE 0,
        updAt |-> IF last = 0 THEN 0 ELSE trace[p][last].at,
        removed |-> OkOps(trace[p], "remove") # {},
        ran |-> TRUE]

(* uploadIdCache != nil *)
uploadIdCache(p) == param[p].cachePath # ""

(* the key of invocation p's cache entry *)
KeyEntries(c, p) ==
    {e \in c : SameKey(e, param[p].charmId, param[p].resourceName,
                       contentHash[p])}

(* return 0, err *)
Fail(p, kind) ==
    /\ pc' = [pc EXCEPT ![p] = "done"]
    /\ result' = [result EXCEPT ![p] = [rev |-> 0, err |-> kind]]

(* The cache operation failed: logger.Warningf / logger.Errorf, and the    *)
(* function goes on to `next` with the result `res` it had in hand.        *)
LogAndContinue_fatal(p, next, res) == Fail(p, ErrOther)

LogAndContinue(p, next, res) ==
    /\ pc' = [pc EXCEPT ![p] = next]
    /\ result' = [result EXCEPT ![p] = res]

(* if p.cachePath != "" { ... } : the first step after opening the file *)
FirstStep_nosweep(p) == IF param'[p].cachePath # "" THEN "hash" ELSE "call1"

FirstStep(p) == IF param'[p].cachePath # "" THEN "sweep" ELSE "call1"

(* the statement that follows a successful readSeekerSHA256 *)
AfterHash_transfer == "call1"

AfterHash == "lookup"

(* else if errgo.Cause(err) != errCacheEntryNotFound { return 0, ... }:    *)
(* where uploadFileResource goes on after an error of Lookup               *)
AfterLookupError_ignore(err) == "call1"

AfterLookupError(err) ==
    IF err = errCacheEntryNotFound THEN "call1" ELSE "done"

(* if uploadIdCache == nil { return } in the callback *)
CallbackUsesCache_always(p) == TRUE

CallbackUsesCache(p) == uploadIdCache(p)

(* the key uploadIdCache.Update is called with *)
UpdateKey_noname(p) == <<param[p].charmId, "", contentHash[p]>>

UpdateKey(p) == <<param[p].charmId, param[p].resourceName, contentHash[p]>>

(* the key uploadIdCache.Remove is called with *)
RemoveKey_nohash(p) == <<param[p].charmId, param[p].resourceName, NoHash>>

RemoveKey(p) == <<param[p].charmId, param[p].resourceName, contentHash[p]>>

(* if err != nil { if errgo.Cause(err) == csclient.ErrUploadNotFound {     *)
(* UploadResource } if err != nil { return 0, err } } : what follows a     *)
(* failed transfer; attempt 1 is ResumeUploadResource, 2 is UploadResource *)
AfterTransferError_anyerror(p, attempt, err) ==
    IF attempt = 1
    THEN pc' = [pc EXCEPT ![p] = "call2"] /\ UNCHANGED result
    ELSE Fail(p, err)

AfterTransferError_cleanup(p, attempt, err) ==
    IF attempt = 1 /\ err = ErrUploadNotFound
    THEN pc' = [pc EXCEPT ![p] = "call2"] /\ UNCHANGED result
    ELSE pc' = [pc EXCEPT ![p] = "remove"] /\ UNCHANGED result

AfterTransferError_relookup(p, attempt, err) ==
    IF attempt = 1 /\ err = ErrUploadNotFound
    THEN pc' = [pc EXCEPT ![p] = "lookup"] /\ UNCHANGED result
    ELSE Fail(p, err)

AfterTransferError(p, attempt, err) ==
    IF attempt = 1 /\ err = ErrUploadNotFound
    THEN pc' = [pc EXCEPT ![p] = "call2"] /\ UNCHANGED result
    ELSE Fail(p, err)

----------------------------------------------------------------------------
(* readSeekerSHA256(r io.ReadSeeker): io.Copy(hasher, r), then r.Seek(0, 0) *)

MaxLen == 3                     \* longest source, in bytes
Bytes == {"x", "y"}

(* the sources: every byte sequence of at most MaxLen bytes *)
Sources == UNION {[1..n -> Bytes] : n \in 0..MaxLen}

(* what readSeekerSHA256 returns, and the call of it that failed *)
NoSum == [sum |-> NoHash, err |-> NoErr, failed |-> ""]

(* r.Seek(0, 0): the offset, from the start of the source *)
SeekOffset_end == Len(rContent)

SeekOffset == 0

HasherInit ==
    /\ rContent = <<>>
    /\ rPos = 0
    /\ hPc = "idle"
    /\ hashed = <<>>
    /\ hResult = NoSum

(* the call: r is a file that has just been opened *)
readSeekerSHA256_Call ==
    /\ hPc \in {"idle", "done"}
    /\ rContent' \in Sources
    /\ rPos' = 0
    /\ hashed' = <<>>
    /\ hResult' = NoSum
    /\ hPc' = "copy"
    /\ UNCHANGED <<uploadVars, dockerVars, cmdVars, driverVars>>

(* io.Copy(hasher, r): one Read of the copy loop.  It delivers some of the *)
(* bytes that remain, or reports the end of the source, or fails.          *)
readSeekerSHA256_Read ==
    /\ hPc = "copy"
    /\ \/ \E n \in 1..(Len(rContent) - rPos) :
             /\ hashed' = hashed \o SubSeq(rContent, rPos + 1, rPos + n)
             /\ rPos' = rPos + n
             /\ UNCHANGED <<hPc, hResult>>
       \/ \* io.EOF: the copy is complete
          /\ rPos = Len(rContent)
          /\ hPc' = "seek"
          /\ UNCHANGED <<rPos, hashed, hResult>>
       \/ \* the Read fails: return nil, errgo.Mask(err)
          /\ hPc' = "done"
          /\ hResult' = [sum |-> NoHash, err |-> ErrOther, failed |-> "Copy"]
          /\ UNCHANGED <<rPos, hashed>>
    /\ UNCHANGED <<rContent, uploadVars, dockerVars, cmdVars, driverVars>>

(* r.Seek(0, 0), then return hasher.Sum(nil), nil *)
readSeekerSHA256_Seek ==
    /\ hPc = "seek"
    /\ \/ /\ rPos' = SeekOffset
          /\ hResult' = [sum |-> SHA256(hashed), err |-> NoErr, failed |-> ""]
       \/ \* the Seek fails: return nil, errgo.Mask(err); io.Seeker does not
          \* say where a failed Seek leaves the offset
          /\ hResult' = [sum |-> NoHash, err |-> ErrOther, failed |-> "Seek"]
          /\ rPos' \in 0..Len(rContent)
    /\ hPc' = "done"
    /\ UNCHANGED <<rContent, hashed, uploadVars, dockerVars, cmdVars, driverVars>>

NextHasher ==
    \/ readSeekerSHA256_Call
    \/ readSeekerSHA256_Read
    \/ readSeekerSHA256_Seek

----------------------------------------------------------------------------
(* uploadExternalDockerResource and imageDigestForReference.  The registry *)
(* is the environment: it answers every request with any response.         *)

(* the parsed references (reference.Named): tag and digest are "" when the *)
(* reference does not carry them                                           *)
Refs == [domain : {"docker.io", "registry.example.com"},
         path : {"app"},
         tag : {"", "v1"},
         digest : {"", "sha256:r"}]

(* http.StatusOK *)
StatusOK == 200

(* what the registry may answer: the status, the value of the              *)
(* Docker-Distribution-Api-Version header as a sequence of its parts, and  *)
(* the value of the Docker-Content-Digest header ("" when it is absent)    *)
Statuses == {StatusOK, 404}
Versions == {<<>>, <<"registry/", "2", ".", "0">>, <<"registry/", "2">>,
             <<"registry/", "1", ".", "0">>}
Digests == {"", "sha256:r", "sha256:s"}
Responses == [status : Statuses, version : Versions, digest : Digests]

NoRef == [domain |-> "", path |-> "", tag |-> "", digest |-> ""]
NoResp == [status |-> 0, version |-> <<>>, digest |-> ""]
NoDigest == [digest |-> "", rev |-> 0, err |-> NoErr]

(* strings.HasPrefix *)
HasPrefix(v, prefix) ==
    /\ Len(v) >= Len(prefix)
    /\ SubSeq(v, 1, Len(prefix)) = prefix

(* strings.HasPrefix(v, "registry/2.") *)
CompatibleVersion_any(v) == TRUE

CompatibleVersion(v) == HasPrefix(v, <<"registry/", "2", ".">>)

(* resp.StatusCode != http.StatusOK after the HEAD by digest *)
DigestVerified_any(r) == TRUE

DigestVerified(r) == r.status = StatusOK

(* ref.(reference.Canonical): the reference carries a digest *)
IsCanonical_digestonly(r) == r.digest # "" /\ r.tag = ""

IsCanonical(r) == r.digest # ""

(* registryEndpointForReference *)
registryEndpointForReference(r) ==
    LET h == IF r.domain = "docker.io" THEN "registry-1.docker.io"
             ELSE r.domain
    IN <<"https://", h, "/v2/">>

(* reference.TagNameOnly: a reference with neither tag nor digest gets the *)
(* default tag                                                             *)
TagNameOnly(r) ==
    IF r.tag = "" /\ r.digest = "" THEN [r EXCEPT !.tag = "latest"] ELSE r

(* referenceTagOrDigest: the type switch tries reference.Tagged first *)
referenceTagOrDigest(r) ==
    LET t == TagNameOnly(r)
    IN IF t.tag # "" THEN t.tag ELSE t.digest

(* endpoint + path + "/manifests/" + what *)
ManifestURL(r, what) ==
    registryEndpointForReference(r) \o <<r.path, "/manifests/", what>>

(* one HTTP exchange: the request, whether it carried the authorization    *)
(* for "pull" on the path, and the error or the response                   *)
Exchange(method, url, auth, err, r) ==
    [method |-> method, url |-> url, auth |-> auth, err |-> err, resp |-> r]

DockerInit ==
    /\ ref = NoRef
    /\ dPc = "idle"
    /\ resp = NoResp
    /\ digest = ""
    /\ requests = <<>>
    /\ dResult = NoDigest
    /\ registered = <<>>

(* return "", err from imageDigestForReference, and so return 0, err from  *)
(* uploadExternalDockerResource                                            *)
ResolveFail ==
    /\ dPc' = "done"
    /\ dResult' = [digest |-> "", rev |-> 0, err |-> ErrOther]

(* uploadExternalDockerResource(p, ref) is called *)
uploadExternalDockerResource_Call ==
    /\ dPc \in {"idle", "done"}
    /\ ref' \in Refs
    /\ dPc' = "authorize"
    /\ resp' = NoResp
    /\ digest' = ""
    /\ requests' = <<>>
    /\ dResult' = NoDigest
    /\ registered' = <<>>
    /\ UNCHANGED <<uploadVars, hasherVars, cmdVars,
                   driverVars>>

(* reqModifier, err := registryAuthorizer(endpoint, path): http.Get of the *)
(* API root, without authorization                                         *)
registryAuthorizer ==
    /\ dPc = "authorize"
    /\ \/ /\ requests' = Append(requests,
                 Exchange("GET", registryEndpointForReference(ref), FALSE,
                          NoErr, NoResp))
          /\ dPc' = "head"
          /\ UNCHANGED dResult
       \/ /\ requests' = Append(requests,
                 Exchange("GET", registryEndpointForReference(ref), FALSE,
                          ErrOther, NoResp))
          /\ ResolveFail
    /\ UNCHANGED <<ref, resp, digest, registered, uploadVars, hasherVars, cmdVars,
                   driverVars>>

(* resp, err := dockerRegistryDo("HEAD", endpoint+path+"/manifests/"+      *)
(* referenceTagOrDigest(ref), reqModifier)                                 *)
imageDigestForReference_Head ==
    /\ dPc = "head"
    /\ LET url == ManifestURL(ref, referenceTagOrDigest(ref))
       IN \/ \E r \in Responses :
                /\ requests' = Append(requests,
                       Exchange("HEAD", url, TRUE, NoErr, r))
                /\ resp' = r
                /\ dPc' = "validate"
                /\ UNCHANGED dResult
          \/ /\ requests' = Append(requests,
                    Exchange("HEAD", url, TRUE, ErrOther, NoResp))
             /\ ResolveFail
             /\ UNCHANGED resp
    /\ UNCHANGED <<ref, digest, registered, uploadVars, hasherVars, cmdVars,
                   driverVars>>

(* the checks of the response, and the return for a canonical reference *)
imageDigestForReference_Validate ==
    /\ dPc = "validate"
    /\ IF \/ resp.status # StatusOK
          \/ ~CompatibleVersion(resp.version)
          \/ resp.digest = ""
       THEN ResolveFail /\ UNCHANGED digest
       ELSE /\ digest' = resp.digest
            /\ IF IsCanonical(ref)
               THEN /\ dResult' = [dResult EXCEPT !.digest = ref.digest]
                    /\ dPc' = "register"
               ELSE /\ dPc' = "verify"
                    /\ UNCHANGED dResult
    /\ UNCHANGED <<ref, resp, requests, registered, uploadVars, hasherVars, cmdVars,
                   driverVars>>

(* resp, err = dockerRegistryDo("HEAD", endpoint+path+"/manifests/"+digest, *)
(* reqModifier), the status check, and return digest, nil                   *)
imageDigestForReference_Verify ==
    /\ dPc = "verify"
    /\ LET url == ManifestURL(ref, digest)
       IN \/ \E r \in Responses :
                /\ requests' = Append(requests,
                       Exchange("HEAD", url, TRUE, NoErr, r))
                /\ resp' = r
                /\ IF DigestVerified(r)
                   THEN /\ dResult' = [dResult EXCEPT !.digest = digest]
                        /\ dPc' = "register"
                   ELSE ResolveFail
          \/ /\ requests' = Append(requests,
                    Exchange("HEAD", url, TRUE, ErrOther, NoResp))
             /\ ResolveFail
             /\ UNCHANGED resp
    /\ UNCHANGED <<ref, digest, registered, uploadVars, hasherVars, cmdVars,
                   driverVars>>

(* rev, err := p.client.AddDockerResource(p.charmId, p.resourceName,       *)
(* ref.Name(), digest)                                                     *)
uploadExternalDockerResource_Add ==
    /\ dPc = "register"
    /\ registered' = Append(registered,
                            [imageName |-> <<ref.domain, ref.path>>,
                             digest |-> dResult.digest])
    /\ \/ dResult' = [dResult EXCEPT !.rev = Len(registered')]
       \/ dResult' = [dResult EXCEPT !.err = ErrOther]
    /\ dPc' = "done"
    /\ UNCHANGED <<ref, resp, digest, requests, uploadVars, hasherVars, cmdVars,
                   driverVars>>

NextDocker ==
    \/ uploadExternalDockerResource_Call
    \/ registryAuthorizer
    \/ imageDigestForReference_Head
    \/ imageDigestForReference_Validate
    \/ imageDigestForReference_Verify
    \/ uploadExternalDockerResource_Add

----------------------------------------------------------------------------
(* serverURL and newCharmStoreClient (cmd.go) *)

(* csclient.ServerURL, and what the tests patch csclientServerURL to *)
ServerURLs == {"https://api.jujucharms.com/charmstore", "invalid-url",
               "http://127.0.0.1:1"}

(* the values JUJU_CHARMSTORE may be set to *)
EnvValues == {"", "http://127.0.0.1:2", "http://127.0.0.1:3",
              "http://cs.example.com"}

(* an environment variable: set or not, and its value *)
Unset == [set |-> FALSE, value |-> ""]

(* os.Getenv: the value, "" when the variable is not set *)
Getenv(v) == IF v.set THEN v.value ELSE ""

NoClient == [URL |-> "", err |-> NoErr, made |-> FALSE]

(* serverURL() *)
serverURL_default == csclientServerURL

serverURL ==
    LET url == Getenv(environ)
    IN IF url # "" THEN url ELSE csclientServerURL

CmdInit ==
    /\ environ = Unset
    /\ csclientServerURL = "https://api.jujucharms.com/charmstore"
    /\ csClient = NoClient

(* os.Setenv("JUJU_CHARMSTORE", v) / os.Unsetenv by whoever runs the command *)
Setenv ==
    /\ \/ \E v \in EnvValues : environ' = [set |-> TRUE, value |-> v]
       \/ environ' = Unset
    /\ UNCHANGED <<csclientServerURL, csClient, uploadVars, hasherVars,
                   dockerVars, driverVars>>

(* the tests patch the exposed variable csclientServerURL *)
PatchServerURL ==
    /\ csclientServerURL' \in ServerURLs
    /\ UNCHANGED <<environ, csClient, uploadVars, hasherVars, dockerVars,
                   driverVars>>

(* newCharmStoreClient: the cookie jar, then csclient.New with              *)
(* URL: serverURL()                                                         *)
newCharmStoreClient ==
    /\ \/ csClient' = [URL |-> "", err |-> ErrOther, made |-> TRUE]
       \/ csClient' = [URL |-> serverURL, err |-> NoErr, made |-> TRUE]
    /\ UNCHANGED <<environ, csclientServerURL, uploadVars, hasherVars,
                   dockerVars, driverVars>>

NextCmd ==
    \/ Setenv
    \/ PatchServerURL
    \/ newCharmStoreClient

----------------------------------------------------------------------------
(* uploadResource and the first lines of uploadDockerResource *)

(* resource.TypeFile, resource.TypeDocker, and a type that is neither *)
TypeFile == "file"
TypeDocker == "docker"
Types == {TypeFile, TypeDocker, "unknown"}

(* p.meta.Resources: the declared resources, as <<name, type>> pairs *)
Metas == {{}} \cup {{<<"data", t>>} : t \in Types}

(* the image names of the references, as reference.ParseNormalizedNamed    *)
(* reads them; any other string is not a valid image name                  *)
ImageNames ==
    [name : {"registry.example.com/app:v1",
             "registry.example.com/app@sha256:r",
             "registry.example.com/app:v1@sha256:r"}]

ParseNormalizedNamed(s) ==
    IF Len(s) # 1 THEN [ok |-> FALSE, ref |-> NoRef]
    ELSE CASE s[1] = "registry.example.com/app:v1" ->
                 [ok |-> TRUE,
                  ref |-> [domain |-> "registry.example.com", path |-> "app",
                           tag |-> "v1", digest |-> ""]]
           [] s[1] = "registry.example.com/app@sha256:r" ->
                 [ok |-> TRUE,
                  ref |-> [domain |-> "registry.example.com", path |-> "app",
                           tag |-> "", digest |-> "sha256:r"]]
           [] s[1] = "registry.example.com/app:v1@sha256:r" ->
                 [ok |-> TRUE,
                  ref |-> [domain |-> "registry.example.com", path |-> "app",
                           tag |-> "v1", digest |-> "sha256:r"]]
           [] OTHER -> [ok |-> FALSE, ref |-> NoRef]

(* p.reference, as a sequence of its parts: the prefix "external::", if    *)
(* any, and the rest                                                       *)
References ==
    {<<n.name>> : n \in ImageNames}
        \cup {<<"external::", n.name>> : n \in ImageNames}
        \cup {<<"external::", "external::", n.name>> : n \in ImageNames}
        \cup {<<"data.zip">>, <<"external::", "Not An Image">>}

(* strings.TrimPrefix *)
TrimPrefix(s, prefix) ==
    IF s # <<>> /\ s[1] = prefix THEN Tail(s) ELSE s

NoCall == [called |-> FALSE, meta |-> {}, resourceName |-> "",
           reference |-> <<>>, to |-> "", err |-> NoErr]

DriverInit ==
    driver = NoCall

(* uploadResource: r, ok := p.meta.Resources[p.resourceName] and the       *)
(* switch on r.Type: the function called, or the error returned            *)
uploadResource_nodefault(meta, resourceName) ==
    IF ~\E r \in meta : r[1] = resourceName
    THEN [to |-> "", err |-> "no such resource"]
    ELSE LET r == CHOOSE r \in meta : r[1] = resourceName
         IN IF r[2] = TypeDocker
            THEN [to |-> "uploadDockerResource", err |-> NoErr]
            ELSE [to |-> "uploadFileResource", err |-> NoErr]

uploadResource(meta, resourceName) ==
    IF ~\E r \in meta : r[1] = resourceName
    THEN [to |-> "", err |-> "no such resource"]
    ELSE LET r == CHOOSE r \in meta : r[1] = resourceName
         IN CASE r[2] = TypeFile ->
                    [to |-> "uploadFileResource", err |-> NoErr]
              [] r[2] = TypeDocker ->
                    [to |-> "uploadDockerResource", err |-> NoErr]
              [] OTHER ->
                    [to |-> "", err |-> "unsupported resource type"]

(* uploadDockerResource, up to the call of uploadExternalDockerResource:   *)
(* the function that goes on, or the error returned                        *)
uploadDockerResource(reference) ==
    LET refStr == TrimPrefix(reference, "external::")
    IN IF ~ParseNormalizedNamed(refStr).ok
       THEN [to |-> "", err |-> "invalid image name"]
       ELSE IF Len(refStr) # Len(reference)
            THEN [to |-> "uploadExternalDockerResource", err |-> NoErr]
            ELSE [to |-> "push", err |-> NoErr]

(* uploadResource(p) is called *)
uploadResource_Call ==
    /\ ~driver.called
    /\ \E m \in Metas, r \in References :
          LET res == uploadResource(m, "data")
          IN driver' = [called |-> TRUE, meta |-> m, resourceName |-> "data",
                        reference |-> r, to |-> res.to, err |-> res.err]
    /\ UNCHANGED <<uploadVars, hasherVars, dockerVars, cmdVars>>

(* case resource.TypeDocker: return uploadDockerResource(p), its first     *)
(* lines                                                                   *)
uploadDockerResource_Parse ==
    /\ driver.to = "uploadDockerResource"
    /\ LET res == uploadDockerResource(driver.reference)
       IN driver' = [driver EXCEPT !.to = res.to, !.err = res.err]
    /\ UNCHANGED <<uploadVars, hasherVars, dockerVars, cmdVars>>

(* return uploadExternalDockerResource(p, ref) *)
uploadDockerResource_External ==
    /\ driver.to = "uploadExternalDockerResource"
    /\ dPc = "idle"
    /\ uploadExternalDockerResource_Call
    /\ ref' = ParseNormalizedNamed(
                  TrimPrefix(driver.reference, "external::")).ref

(* the image is not external: DockerResourceUploadInfo, ImageTag and       *)
(* ImagePush on the local docker, then AddDockerResource with the digest   *)
(* of the push; any of them may fail                                       *)
uploadDockerResource_Push ==
    /\ driver.to = "push"
    /\ \/ /\ driver' = [driver EXCEPT !.to = "", !.err = ErrOther]
          /\ UNCHANGED registered
       \/ \E d \in Digests \ {""} :
             /\ registered' = Append(registered,
                                     [imageName |-> <<>>, digest |-> d])
             /\ driver' = [driver EXCEPT !.to = "pushed"]
    /\ UNCHANGED <<ref, dPc, resp, digest, requests, dResult, uploadVars,
                   hasherVars, cmdVars>>

----------------------------------------------------------------------------
Init ==
    /\ cache = {}
    /\ now = 0
    /\ nextUploadId = 1
    /\ revision = 0
    /\ started = 0
    /\ pc = [p \in Procs |-> "idle"]
    /\ param = [p \in Procs |-> NoParam]
    /\ contentHash = [p \in Procs |-> NoHash]
    /\ uploadId = [p \in Procs |-> NoUploadId]
    /\ cbId = [p \in Procs |-> NoUploadId]
    /\ rev = [p \in Procs |-> 0]
    /\ result = [p \in Procs |-> NoResult]
    /\ trace = [p \in Procs |-> <<>>]
    /\ prev = [p \in Procs |-> NoPrev]
    /\ recorded = {}
    /\ HasherInit
    /\ DockerInit
    /\ CmdInit
    /\ DriverInit

(* The clock advances. *)
Tick ==
    /\ now + TickHours <= MaxTime
    /\ now' = now + TickHours
    /\ UNCHANGED <<cache, nextUploadId, revision, started, pc, param,
                   contentHash, uploadId, cbId, rev, result, trace, prev,
                   recorded>>
    /\ UNCHANGED otherVars

----------------------------------------------------------------------------
(* uploadFileResource, step by step *)

(* A new invocation: open and stat the file, decide whether a cache is used. *)
uploadFileResource_Open(p) ==
    /\ pc[p] \in {"idle", "done"}
    /\ started < MaxInvocations
    /\ started' = started + 1
    /\ prev' = [prev EXCEPT ![p] = IF pc[p] = "done" THEN Summary(p) ELSE @]
    /\ \E u \in Uploads, cp \in CachePaths :
          param' = [param EXCEPT ![p] =
                       [charmId |-> u[1], resourceName |-> u[2],
                        content |-> u[3], cachePath |-> cp]]
    /\ contentHash' = [contentHash EXCEPT ![p] = NoHash]
    /\ uploadId' = [uploadId EXCEPT ![p] = NoUploadId]
    /\ cbId' = [cbId EXCEPT ![p] = NoUploadId]
    /\ rev' = [rev EXCEPT ![p] = 0]
    /\ trace' = [trace EXCEPT ![p] = <<>>]
    /\ \/ /\ pc' = [pc EXCEPT ![p] = FirstStep(p)]
          /\ result' = [result EXCEPT ![p] = NoResult]
       \/ Fail(p, ErrOther)      \* os.Open or f.Stat failed
    /\ UNCHANGED <<cache, now, nextUploadId, revision, recorded>>
    /\ UNCHANGED otherVars

(* uploadIdCache.RemoveExpiredEntries(); an error is logged and ignored. *)
uploadFileResource_RemoveExpired(p) ==
    /\ pc[p] = "sweep"
    /\ \/ /\ cache' = RemoveExpiredEntries(cache, now)
          /\ Log(p, Op("sweep", Cardinality(cache \ cache'), NoErr, 0))
          /\ pc' = [pc EXCEPT ![p] = "hash"]
          /\ UNCHANGED result
       \/ \* the sweep fails part-way: some expired entries may be gone
          /\ \E gone \in SUBSET (cache \ RemoveExpiredEntries(cache, now)) :
                /\ cache' = cache \ gone
                /\ Log(p, Op("sweep", Cardinality(gone), ErrOther, 0))
          /\ LogAndContinue(p, "hash", result[p])
    /\ UNCHANGED <<now, nextUploadId, revision, started, param, contentHash,
                   uploadId, cbId, rev, prev, recorded>>
    /\ UNCHANGED otherVars

(* contentHash, err = readSeekerSHA256(f) *)
uploadFileResource_Hash(p) ==
    /\ pc[p] = "hash"
    /\ \/ /\ contentHash' = [contentHash EXCEPT
                                ![p] = SHA256(param[p].content)]
          /\ Log(p, Op("hash", 0, NoErr, 0))
          /\ pc' = [pc EXCEPT ![p] = AfterHash]
          /\ UNCHANGED result
       \/ /\ Log(p, Op("hash", 0, ErrOther, 0))
          /\ Fail(p, ErrOther)
          /\ UNCHANGED contentHash
    /\ UNCHANGED <<cache, now, nextUploadId, revision, started, param,
                   uploadId, cbId, rev, prev, recorded>>
    /\ UNCHANGED otherVars

(* entry, err := uploadIdCache.Lookup(p.charmId, p.resourceName, contentHash) *)
uploadFileResource_Lookup(p) ==
    /\ pc[p] = "lookup"
    /\ LET found == Lookup(cache, param[p].charmId, param[p].resourceName,
                           contentHash[p], now)
       IN \/ \E e \in found :
                /\ uploadId' = [uploadId EXCEPT ![p] = e.UploadId]
                /\ Log(p, Op("lookup", e.UploadId, NoErr, 0))
                /\ pc' = [pc EXCEPT ![p] = "call1"]
                /\ UNCHANGED result
          \/ \* no entry, or the cache cannot be read
             \E err \in {errCacheEntryNotFound, ErrOther} :
                /\ err = errCacheEntryNotFound => found = {}
                /\ Log(p, Op("lookup", 0, err, 0))
                /\ IF AfterLookupError(err) = "call1"
                   THEN pc' = [pc EXCEPT ![p] = "call1"] /\ UNCHANGED result
                   ELSE Fail(p, err)
                /\ UNCHANGED uploadId
    /\ UNCHANGED <<cache, now, nextUploadId, revision, started, param,
                   contentHash, cbId, rev, prev, recorded>>
    /\ UNCHANGED otherVars

(* rev, err := p.client.ResumeUploadResource(uploadId, ...): the call is     *)
(* made; the store rejects an identifier it does not know, or takes up the  *)
(* transfer and may announce the upload identifier through d (Start).       *)
uploadFileResource_Resume(p) ==
    /\ pc[p] = "call1"
    /\ \/ \* the store does not know the upload: ErrUploadNotFound
          /\ uploadId[p] # NoUploadId
          /\ trace' = [trace EXCEPT ![p] =
                 @ \o <<Op("resume", uploadId[p], NoErr, 0),
                        Op("return", 0, ErrUploadNotFound, 0)>>]
          /\ AfterTransferError(p, 1, ErrUploadNotFound)
          /\ UNCHANGED <<cbId, nextUploadId>>
       \/ \* the store resumes the upload and confirms its identifier
          /\ uploadId[p] # NoUploadId
          /\ Log(p, Op("resume", uploadId[p], NoErr, 0))
          /\ cbId' = [cbId EXCEPT ![p] = uploadId[p]]
          /\ pc' = [pc EXCEPT ![p] = "cb1"]
          /\ UNCHANGED <<nextUploadId, result>>
       \/ \* the store starts a new multipart upload and assigns an identifier
          /\ uploadId[p] = NoUploadId
          /\ Log(p, Op("resume", uploadId[p], NoErr, 0))
          /\ cbId' = [cbId EXCEPT ![p] = nextUploadId]
          /\ nextUploadId' = nextUploadId + 1
          /\ pc' = [pc EXCEPT ![p] = "cb1"]
          /\ UNCHANGED result
       \/ \* no upload identifier is announced (single-part transfer, or the
          \* call fails before one is assigned)
          /\ Log(p, Op("resume", uploadId[p], NoErr, 0))
          /\ pc' = [pc EXCEPT ![p] = "body1"]
          /\ UNCHANGED <<cbId, nextUploadId, result>>
    /\ UNCHANGED <<cache, now, revision, started, param, contentHash,
                   uploadId, rev, prev, recorded>>
    /\ UNCHANGED otherVars

(* rev, err = p.client.UploadResource(...) after ErrUploadNotFound *)
uploadFileResource_Fallback(p) ==
    /\ pc[p] = "call2"
    /\ \/ \* the store answers "upload not found" once more
          /\ trace' = [trace EXCEPT ![p] =
                 @ \o <<Op("upload", NoUploadId, NoErr, 0),
                        Op("return", 0, ErrUploadNotFound, 0)>>]
          /\ AfterTransferError(p, 2, ErrUploadNotFound)
          /\ UNCHANGED <<cbId, nextUploadId>>
       \/ \* the store starts a new multipart upload and assigns an identifier
          /\ Log(p, Op("upload", NoUploadId, NoErr, 0))
          /\ cbId' = [cbId EXCEPT ![p] = nextUploadId]
          /\ nextUploadId' = nextUploadId + 1
          /\ pc' = [pc EXCEPT ![p] = "cb2"]
          /\ UNCHANGED result
       \/ \* no upload identifier is announced
          /\ Log(p, Op("upload", NoUploadId, NoErr, 0))
          /\ pc' = [pc EXCEPT ![p] = "body2"]
          /\ UNCHANGED <<cbId, nextUploadId, result>>
    /\ UNCHANGED <<cache, now, revision, started, param, contentHash,
                   uploadId, rev, prev, recorded>>
    /\ UNCHANGED otherVars

(* The callback given to newProgressDisplay: func(uploadId string) {...},  *)
(* run when the transfer announces the upload identifier.                  *)
uploadIdCallback(p) ==
    /\ pc[p] \in {"cb1", "cb2"}
    /\ LET next == IF pc[p] = "cb1" THEN "body1" ELSE "body2"
       IN IF ~CallbackUsesCache(p)
          THEN /\ pc' = [pc EXCEPT ![p] = next]
               /\ UNCHANGED <<cache, trace, recorded, result>>
          ELSE \/ /\ cache' = Update(cache, cbId[p], UpdateKey(p)[1],
                                     UpdateKey(p)[2], UpdateKey(p)[3], now)
                  /\ recorded' = recorded \cup
                         {<<cbId[p], param[p].charmId,
                            param[p].resourceName, param[p].content>>}
                  /\ Log(p, Op("update", cbId[p], NoErr, now))
                  /\ pc' = [pc EXCEPT ![p] = next]
                  /\ UNCHANGED result
               \/ \* the cache cannot be written: logged and ignored
                  /\ Log(p, Op("update", cbId[p], ErrOther, now))
                  /\ LogAndContinue(p, next, result[p])
                  /\ UNCHANGED <<cache, recorded>>
    /\ UNCHANGED <<now, nextUploadId, revision, started, param, contentHash,
                   uploadId, cbId, rev, prev>>
    /\ UNCHANGED otherVars

(* The transfer returns: a revision, or an error other than "not found". *)
uploadFileResource_Return(p) ==
    /\ pc[p] \in {"body1", "body2"}
    /\ \/ /\ revision' = revision + 1
          /\ rev' = [rev EXCEPT ![p] = revision']
          /\ Log(p, Op("return", revision', NoErr, 0))
          /\ pc' = [pc EXCEPT ![p] = "remove"]
          /\ UNCHANGED result
       \/ /\ Log(p, Op("return", 0, ErrOther, 0))
          /\ AfterTransferError(p, IF pc[p] = "body1" THEN 1 ELSE 2, ErrOther)
          /\ UNCHANGED <<rev, revision>>
    /\ UNCHANGED <<cache, now, nextUploadId, started, param, contentHash,
                   uploadId, cbId, prev, recorded>>
    /\ UNCHANGED otherVars

(* The upload succeeded: remove the cache entry and return rev. *)
uploadFileResource_Remove(p) ==
    /\ pc[p] = "remove"
    /\ LET res == [rev |-> rev[p], err |-> NoErr]
       IN IF ~uploadIdCache(p)
          THEN /\ pc' = [pc EXCEPT ![p] = "done"]
               /\ result' = [result EXCEPT ![p] = res]
               /\ UNCHANGED <<cache, trace>>
          ELSE \/ /\ cache' = Remove(cache, RemoveKey(p)[1], RemoveKey(p)[2],
                                     RemoveKey(p)[3])
                  /\ Log(p, Op("remove", 0,
                               RemoveErr(cache, RemoveKey(p)[1],
                                         RemoveKey(p)[2], RemoveKey(p)[3]),
                               0))
                  /\ LogAndContinue(p, "done", res)
               \/ \* the entry cannot be removed: logged and ignored
                  /\ Log(p, Op("remove", 0, ErrOther, 0))
                  /\ LogAndContinue(p, "done", res)
                  /\ UNCHANGED cache
    /\ UNCHANGED <<now, nextUploadId, revision, started, param, contentHash,
                   uploadId, cbId, rev, prev, recorded>>
    /\ UNCHANGED otherVars

(* case resource.TypeFile: return uploadFileResource(p) *)
uploadResource_File(p) ==
    /\ driver.to = "uploadFileResource"
    /\ pc[p] = "idle"
    /\ uploadFileResource_Open(p)
    /\ param'[p].resourceName = driver.resourceName

----------------------------------------------------------------------------
(* Invocations run one after another, in one slot. *)
Next ==
    \/ Tick
    \/ \E p \in SeqProcs : uploadFileResource_Open(p)
    \/ \E p \in SeqProcs : uploadFileResource_RemoveExpired(p)
    \/ \E p \in SeqProcs : uploadFileResource_Hash(p)
    \/ \E p \in SeqProcs : uploadFileResource_Lookup(p)
    \/ \E p \in SeqProcs : uploadFileResource_Resume(p)
    \/ \E p \in SeqProcs : uploadFileResource_Fallback(p)
    \/ \E p \in SeqProcs : uploadIdCallback(p)
    \/ \E p \in SeqProcs : uploadFileResource_Return(p)
    \/ \E p \in SeqProcs : uploadFileResource_Remove(p)

Spec == Init /\ [][Next]_vars

(* the content hasher alone *)
SpecHasher == Init /\ [][NextHasher]_vars

(* the upload of an external image alone *)
SpecDocker == Init /\ [][NextDocker]_vars

(* the creation of the charm store client alone *)
SpecCmd == Init /\ [][NextCmd]_vars


----------------------------------------------------------------------------
(* One invocation against the cache that earlier invocations, for this and *)
(* for other charms, resources and contents, have left behind.             *)

(* the keys of the entries left behind; entry i carries upload identifier i *)
SeedKeys == << <<"cs:wordpress", "data", "A">>,
               <<"cs:mysql", "data", "A">>,
               <<"cs:wordpress", "conf", "A">>,
               <<"cs:wordpress", "data", "B">> >>

SeedEntry(i) ==
    [CharmId |-> SeedKeys[i][1], ResourceName |-> SeedKeys[i][2],
     Sha256 |-> SHA256(SeedKeys[i][3]), UploadId |-> i, CreatedAt |-> 0]

InitSeeded ==
    /\ \E S \in SUBSET (DOMAIN SeedKeys) :
          /\ cache = {SeedEntry(i) : i \in S}
          /\ recorded = {<<i, SeedKeys[i][1], SeedKeys[i][2], SeedKeys[i][3]>> :
                            i \in S}
    /\ now = 0
    /\ nextUploadId = Len(SeedKeys) + 1
    /\ revision = 0
    /\ started = MaxInvocations - 1
    /\ pc = [p \in Procs |-> "idle"]
    /\ param = [p \in Procs |-> NoParam]
    /\ contentHash = [p \in Procs |-> NoHash]
    /\ uploadId = [p \in Procs |-> NoUploadId]
    /\ cbId = [p \in Procs |-> NoUploadId]
    /\ rev = [p \in Procs |-> 0]
    /\ result = [p \in Procs |-> NoResult]
    /\ trace = [p \in Procs |-> <<>>]
    /\ prev = [p \in Procs |-> NoPrev]
    /\ HasherInit
    /\ DockerInit
    /\ CmdInit
    /\ DriverInit

SpecSeeded == InitSeeded /\ [][Next]_vars

(* one call of uploadResource and the function it selects *)
NextDriver ==
    \/ uploadResource_Call
    \/ uploadDockerResource_Parse
    \/ uploadDockerResource_External
    \/ uploadDockerResource_Push
    \/ registryAuthorizer
    \/ imageDigestForReference_Head
    \/ imageDigestForReference_Validate
    \/ imageDigestForReference_Verify
    \/ uploadExternalDockerResource_Add
    \/ \E p \in SeqProcs : uploadResource_File(p)
    \/ \E p \in SeqProcs : uploadFileResource_RemoveExpired(p)
    \/ \E p \in SeqProcs : uploadFileResource_Hash(p)
    \/ \E p \in SeqProcs : uploadFileResource_Lookup(p)
    \/ \E p \in SeqProcs : uploadFileResource_Resume(p)
    \/ \E p \in SeqProcs : uploadFileResource_Fallback(p)
    \/ \E p \in SeqProcs : uploadIdCallback(p)
    \/ \E p \in SeqProcs : uploadFileResource_Return(p)
    \/ \E p \in SeqProcs : uploadFileResource_Remove(p)

SpecDriver == InitSeeded /\ [][NextDriver]_vars

(* Invocations run at the same time as independent processes on one cache  *)
(* file, each process once; a step is one cache operation or one exchange  *)
(* with the store.                                                         *)
NextConcurrent ==
    \/ Tick
    \/ \E p \in Procs : pc[p] = "idle" /\ uploadFileResource_Open(p)
    \/ \E p \in Procs : uploadFileResource_RemoveExpired(p)
    \/ \E p \in Procs : uploadFileResource_Hash(p)
    \/ \E p \in Procs : uploadFileResource_Lookup(p)
    \/ \E p \in Procs : uploadFileResource_Resume(p)
    \/ \E p \in Procs : uploadFileResource_Fallback(p)
    \/ \E p \in Procs : uploadIdCallback(p)
    \/ \E p \in Procs : uploadFileResource_Return(p)
    \/ \E p \in Procs : uploadFileResource_Remove(p)

SpecConcurrent == Init /\ [][NextConcurrent]_vars

----------------------------------------------------------------------------
(* Vocabulary of the properties *)

Done(p) == pc[p] = "done"
Succeeded(p) == pc[p] = "done" /\ result[p].err = NoErr
Failed(p) == pc[p] = "done" /\ result[p].err # NoErr

(* the transfer calls made to the store *)
Transfers(tr) == Ops(tr, "resume") \cup Ops(tr, "upload")

Last(tr) == tr[Len(tr)]

(* Lookup returned a cached entry *)
Found(tr) == {i \in OkOps(tr, "lookup") : tr[i].id # NoUploadId}

(* the store answered the resume of a cached upload with "upload not found" *)
ResumeRejected(tr) ==
    \E i \in Ops(tr, "resume") :
        /\ tr[i].id # NoUploadId
        /\ i + 1 <= Len(tr)
        /\ tr[i + 1].op = "return"
        /\ tr[i + 1].err = ErrUploadNotFound

(* the successful returns of the fresh upload made as a fallback *)
FreshSuccess(tr) ==
    {j \in OkOps(tr, "return") : \E i \in Ops(tr, "upload") : i < j}

----------------------------------------------------------------------------
(* C1: resume-then-not-found.  With a cache configured, when Lookup        *)
(* returned a cached uploadId and the store rejected the resume with       *)
(* "upload not found", exactly one fresh upload is made; if it succeeds,   *)
(* Upload returns the store's revision without error.                      *)

C1_Case(p) ==
    uploadIdCache(p) /\ Found(trace[p]) # {} /\ ResumeRejected(trace[p])

C1_OneFreshUpload(p) ==
    LET ups == Ops(trace[p], "upload")
    IN /\ Cardinality(ups) <= 1
       /\ pc[p] # "call2" => Cardinality(ups) = 1
       /\ \A j \in FreshSuccess(trace[p]) :
             /\ pc[p] \in {"remove", "done"}
             /\ Done(p) => result[p] = [rev |-> trace[p][j].id, err |-> NoErr]

(* C1 as stated: ... and the cache contains no entry for the key when the  *)
(* invocation ends.                                                        *)
C1_Original ==
    \A p \in Procs : C1_Case(p) =>
        /\ C1_OneFreshUpload(p)
        /\ Done(p) /\ FreshSuccess(trace[p]) # {}
              => KeyEntries(cache, p) = {}

(* C1 as amended: ... and the cache contains no entry for the key when the *)
(* invocation ends, provided the final Remove did not fail; when it fails  *)
(* the error is only logged and the invocation still succeeds.             *)
C1_ResumeNotFound ==
    \A p \in Procs : C1_Case(p) =>
        /\ C1_OneFreshUpload(p)
        /\ Done(p) /\ FreshSuccess(trace[p]) # {}
                   /\ OkOps(trace[p], "remove") # {}
              => KeyEntries(cache, p) = {}

C1_Witness ==
    \E p \in Procs :
        /\ C1_Case(p)
        /\ Succeeded(p)
        /\ OkOps(trace[p], "update") # {}
        /\ OkOps(trace[p], "remove") # {}
        /\ KeyEntries(cache, p) = {}
        /\ result[p].rev > 0

----------------------------------------------------------------------------
(* C2: every invocation ends after at most two transfer calls: at most one *)
(* resume attempt, followed by at most one fresh attempt.  The fresh       *)
(* attempt is made only after the resume attempt failed with "upload not   *)
(* found", and when it fails too (also with "upload not found") the        *)
(* invocation ends in failure with no further attempt.  No invocation      *)
(* performs more operations than its longest run.                          *)

LongestRun == <<"sweep", "hash", "lookup", "resume", "return", "upload",
                "update", "return", "remove">>

C2_TwoTransfers ==
    \A p \in Procs :
        LET tr == trace[p]
        IN /\ Cardinality(Ops(tr, "resume")) <= 1
           /\ Cardinality(Ops(tr, "upload")) <= 1
           /\ Len(tr) <= Len(LongestRun)
           /\ \A i \in Ops(tr, "resume") : \A j \in Ops(tr, "upload") : i < j
           /\ \A i \in Ops(tr, "upload") :
                 /\ i >= 3
                 /\ tr[i - 2].op = "resume"
                 /\ tr[i - 2].id # NoUploadId
                 /\ tr[i - 1].op = "return"
                 /\ tr[i - 1].err = ErrUploadNotFound
           /\ \A i \in Ops(tr, "upload") : \A j \in Ops(tr, "return") :
                 (j > i /\ tr[j].err # NoErr) =>
                     /\ Failed(p)
                     /\ result[p].rev = 0
                     /\ j = Len(tr)

C2_Witness ==
    \E p \in Procs :
        /\ Failed(p)
        /\ Cardinality(Transfers(trace[p])) = 2
        /\ Last(trace[p]).op = "return"
        /\ Last(trace[p]).err = ErrUploadNotFound

----------------------------------------------------------------------------
(* C3: the cache Remove of an invocation happens only right after a        *)
(* transfer has returned success, never before a transfer; when the        *)
(* invocation ends in failure, Remove is never called, and an entry        *)
(* recorded for the key is still in the cache.                             *)

C3_RemoveAfterSuccess ==
    \A p \in Procs :
        LET tr == trace[p]
        IN /\ \A i \in Ops(tr, "remove") :
                 /\ i > 1
                 /\ tr[i - 1].op = "return"
                 /\ tr[i - 1].err = NoErr
                 /\ \A j \in Transfers(tr) : j < i
           /\ Failed(p) =>
                 /\ Ops(tr, "remove") = {}
                 /\ \A u \in OkOps(tr, "update") :
                       \E e \in KeyEntries(cache, p) : e.UploadId = tr[u].id
                 /\ Found(tr) # {} => KeyEntries(cache, p) # {}

C3_Witness ==
    \E p \in Procs :
        /\ Failed(p)
        /\ OkOps(trace[p], "update") # {}
        /\ Found(trace[p]) # {}
        /\ Last(trace[p]).op = "return"
        /\ \E e \in KeyEntries(cache, p) : e.UploadId = cbId[p]

----------------------------------------------------------------------------
(* C4: with a cache configured, the steps of an invocation come in the     *)
(* order expiry sweep, content hashing, cache Lookup, first transfer; no   *)
(* transfer call is started before the Lookup has returned.                *)

C4_LookupBeforeTransfer ==
    \A p \in Procs : uploadIdCache(p) =>
        LET tr == trace[p]
        IN /\ Len(tr) >= 1 => tr[1].op = "sweep"
           /\ Len(tr) >= 2 => tr[2].op = "hash"
           /\ Len(tr) >= 3 => tr[3].op = "lookup"
           /\ Len(tr) >= 4 =>
                 /\ tr[4].op = "resume"
                 /\ tr[3].err \in {NoErr, errCacheEntryNotFound}
                 /\ tr[4].id = tr[3].id
           /\ \A i \in Transfers(tr) : i >= 4
           /\ pc[p] \in {"call1", "cb1", "body1", "call2", "cb2", "body2",
                         "remove"} => Len(tr) >= 3

C4_Witness ==
    \E p \in Procs :
        /\ uploadIdCache(p)
        /\ Len(trace[p]) >= 4
        /\ trace[p][4].op = "resume"
        /\ trace[p][4].id # NoUploadId

----------------------------------------------------------------------------
(* C5: a resume is only attempted against byte-identical content: every    *)
(* non-empty uploadId passed to the store for content C of resource        *)
(* (A, N) was written to the cache by an earlier Update for the same       *)
(* artifact, resource name and content.                                    *)

C5_TokensRecorded(p) ==
    \A i \in Transfers(trace[p]) :
        trace[p][i].id # NoUploadId =>
            <<trace[p][i].id, param[p].charmId, param[p].resourceName,
              param[p].content>> \in recorded

(* the invocation before this one was for the same artifact and resource   *)
(* name, and the content it hashed had another hash                        *)
C5_ContentChanged(p) ==
    /\ prev[p].ran
    /\ prev[p].param.charmId = param[p].charmId
    /\ prev[p].param.resourceName = param[p].resourceName
    /\ prev[p].hash # NoHash
    /\ contentHash[p] # NoHash
    /\ prev[p].hash # contentHash[p]

(* C5 as stated: ... and if the file's content changed between invocations *)
(* the later invocation starts with an empty uploadId.                     *)
C5_Original ==
    \A p \in Procs :
        /\ C5_TokensRecorded(p)
        /\ C5_ContentChanged(p) =>
              /\ uploadId[p] = NoUploadId
              /\ \A i \in Transfers(trace[p]) : trace[p][i].id = NoUploadId

(* C5 as amended: ... and if the file's content changed between            *)
(* invocations, the later invocation starts with an empty uploadId unless  *)
(* an Update was recorded for the new content itself by a still earlier    *)
(* invocation; an entry recorded under the old content is never used.      *)
C5_ResumeSameContent ==
    \A p \in Procs :
        /\ C5_TokensRecorded(p)
        /\ uploadId[p] # NoUploadId =>
              <<uploadId[p], param[p].charmId, param[p].resourceName,
                param[p].content>> \in recorded
        /\ (C5_ContentChanged(p) /\
            ~\E r \in recorded : /\ r[2] = param[p].charmId
                                 /\ r[3] = param[p].resourceName
                                 /\ r[4] = param[p].content) =>
              /\ uploadId[p] = NoUploadId
              /\ \A i \in Transfers(trace[p]) : trace[p][i].id = NoUploadId

(* the content changed, the entry of the old content is in the cache and   *)
(* unexpired, and the transfer starts with an empty uploadId               *)
C5_Witness ==
    \E p \in Procs :
        /\ C5_ContentChanged(p)
        /\ uploadIdCache(p)
        /\ \E e \in cache :
              /\ e.CharmId = param[p].charmId
              /\ e.ResourceName = param[p].resourceName
              /\ e.Sha256 = prev[p].hash
              /\ ~Expired(e, now)
        /\ \E i \in Ops(trace[p], "resume") : trace[p][i].id = NoUploadId

----------------------------------------------------------------------------
(* C6: resumability across invocations, with a cache configured.  If the   *)
(* store announces an upload identifier through the callback and the       *)
(* transfer then fails with an error other than "upload not found", the    *)
(* identifier is in the cache under the invocation's key when the          *)
(* invocation ends; the next invocation for the same artifact, resource    *)
(* name and content within 48 hours that reaches its first transfer gets   *)
(* the identifier from Lookup and passes it to the store as resume token.  *)

(* invocation p ended with a failed transfer after the callback ran *)
C6_Interrupted(p) ==
    /\ Done(p)
    /\ uploadIdCache(p)
    /\ Ops(trace[p], "update") # {}
    /\ Last(trace[p]).op = "return"
    /\ Last(trace[p]).err = ErrOther

(* the invocation before this one was interrupted in that way, for the     *)
(* same key, at most 48 hours ago                                          *)
C6_Retry(p) ==
    /\ prev[p].ran
    /\ prev[p].err = ErrOther
    /\ prev[p].cbId # NoUploadId
    /\ prev[p].param = param[p]
    /\ uploadIdCache(p)
    /\ now - prev[p].updAt <= uploadIdCacheExpiryDuration
    /\ Ops(trace[p], "resume") # {}

(* C6 as stated *)
C6_Original ==
    \A p \in Procs :
        /\ C6_Interrupted(p) =>
              \E e \in KeyEntries(cache, p) : e.UploadId = cbId[p]
        /\ C6_Retry(p) =>
              /\ \A i \in Ops(trace[p], "lookup") :
                    trace[p][i].id = prev[p].cbId
              /\ \A i \in Ops(trace[p], "resume") :
                    trace[p][i].id = prev[p].cbId

(* C6 as amended: the same, provided the Update made by the callback did   *)
(* not fail (a failed Update is only logged, and nothing is cached).       *)
C6_Resumable ==
    \A p \in Procs :
        /\ (C6_Interrupted(p) /\ OkOps(trace[p], "update") # {}) =>
              \E e \in KeyEntries(cache, p) : e.UploadId = cbId[p]
        /\ (C6_Retry(p) /\ prev[p].updId # NoUploadId) =>
              /\ \A i \in Ops(trace[p], "lookup") :
                    trace[p][i].id = prev[p].updId
              /\ \A i \in Ops(trace[p], "resume") :
                    trace[p][i].id = prev[p].updId

C6_Witness ==
    \E p \in Procs :
        /\ C6_Retry(p)
        /\ prev[p].updId # NoUploadId
        /\ now > prev[p].updAt
        /\ \E i \in Ops(trace[p], "resume") : trace[p][i].id = prev[p].updId

----------------------------------------------------------------------------
(* C7: a completed upload is never resumed again.  In every successful     *)
(* invocation with a cache configured, every Update precedes the Remove,   *)
(* Remove is the last cache operation, and the cache holds no entry for    *)
(* the key afterwards, so that the invocation that follows for the same    *)
(* key gets NotFound from Lookup and starts with an empty uploadId.        *)

C7_RemoveLast(p) ==
    LET tr == trace[p]
    IN (Succeeded(p) /\ uploadIdCache(p)) =>
          /\ Ops(tr, "remove") = {Len(tr)}
          /\ \A u \in Ops(tr, "update") : u < Len(tr)

(* the invocation before this one succeeded for the same key *)
C7_After(p) ==
    /\ pc[p] # "idle"
    /\ prev[p].ran
    /\ prev[p].err = NoErr
    /\ prev[p].param = param[p]
    /\ uploadIdCache(p)

(* C7 as stated *)
C7_Original ==
    \A p \in Procs :
        /\ C7_RemoveLast(p)
        /\ (Succeeded(p) /\ uploadIdCache(p)) => KeyEntries(cache, p) = {}
        /\ C7_After(p) =>
              /\ \A i \in Ops(trace[p], "lookup") :
                    trace[p][i].err = errCacheEntryNotFound
              /\ \A i \in Ops(trace[p], "resume") :
                    trace[p][i].id = NoUploadId

(* C7 as amended: the same, provided the Remove did not fail: the cache    *)
(* then holds no entry for the key, and the Lookup of the invocation that  *)
(* follows for the same key finds no entry (it returns NotFound unless the *)
(* cache cannot be read) and its transfer starts with an empty uploadId.   *)
C7_NeverResumedAgain ==
    \A p \in Procs :
        /\ C7_RemoveLast(p)
        /\ (Succeeded(p) /\ uploadIdCache(p)
                /\ OkOps(trace[p], "remove") # {}) =>
              KeyEntries(cache, p) = {}
        /\ (C7_After(p) /\ prev[p].removed) =>
              /\ Found(trace[p]) = {}
              /\ uploadId[p] = NoUploadId
              /\ \A i \in Ops(trace[p], "resume") :
                    trace[p][i].id = NoUploadId

C7_Witness ==
    \E p \in Procs :
        /\ C7_After(p)
        /\ prev[p].removed
        /\ prev[p].updId # NoUploadId
        /\ \E i \in Ops(trace[p], "lookup") :
              trace[p][i].err = errCacheEntryNotFound
        /\ \E i \in Ops(trace[p], "resume") : trace[p][i].id = NoUploadId

----------------------------------------------------------------------------
(* C8: during one invocation the cache is read at most once (one Lookup)   *)
(* and written at most twice.                                              *)

(* the cache operations of a trace that changed the cache *)
Writes(tr) ==
    {i \in Ops(tr, "sweep") : tr[i].id > 0}
        \cup OkOps(tr, "update") \cup OkOps(tr, "remove")

(* C8 as stated *)
C8_Original ==
    \A p \in Procs :
        /\ Cardinality(Ops(trace[p], "lookup")) <= 1
        /\ Cardinality(Writes(trace[p])) <= 2

(* C8 as amended: one invocation makes at most one Lookup, at most one     *)
(* Update (through the callback) and at most one Remove, also when a       *)
(* resume is rejected and a fresh upload follows; with the expiry sweep at *)
(* its start, which deletes the expired entries, the cache is written at   *)
(* most three times.                                                       *)
C8_CacheTraffic ==
    \A p \in Procs :
        /\ Cardinality(Ops(trace[p], "lookup")) <= 1
        /\ Cardinality(Ops(trace[p], "sweep")) <= 1
        /\ Cardinality(Ops(trace[p], "update")) <= 1
        /\ Cardinality(Ops(trace[p], "remove")) <= 1
        /\ Cardinality(Writes(trace[p])) <= 3

C8_Witness ==
    \E p \in Procs :
        /\ Succeeded(p)
        /\ ResumeRejected(trace[p])
        /\ Cardinality(OkOps(trace[p], "update")) = 1
        /\ Cardinality(OkOps(trace[p], "remove")) = 1
        /\ Cardinality(Writes(trace[p])) = 3

----------------------------------------------------------------------------
(* C9: cache-free mode.  When no cache path is configured, an invocation   *)
(* performs no cache operation (no sweep, Lookup, Update or Remove) and no *)
(* content hashing, its first transfer carries an empty uploadId, and it   *)
(* can still end in success with the store's revision.                     *)

C9_CacheFree ==
    \A p \in Procs : (pc[p] # "idle" /\ ~uploadIdCache(p)) =>
        LET tr == trace[p]
        IN /\ \A i \in DOMAIN tr : tr[i].op \in {"resume", "upload", "return"}
           /\ contentHash[p] = NoHash
           /\ uploadId[p] = NoUploadId
           /\ \A i \in Ops(tr, "resume") : tr[i].id = NoUploadId
           /\ Len(tr) >= 1 => tr[1].op = "resume"
           /\ (Done(p) /\ OkOps(tr, "return") # {}) =>
                 result[p] = [rev |-> Last(tr).id, err |-> NoErr]

C9_Witness ==
    \E p \in Procs :
        /\ ~uploadIdCache(p)
        /\ Succeeded(p)
        /\ cbId[p] # NoUploadId
        /\ result[p].rev > 0
        /\ cache # {}

----------------------------------------------------------------------------
(* C10: cache bookkeeping failures never fail the upload.  When            *)
(* RemoveExpiredEntries, Update or Remove returns an error, the invocation *)
(* goes on, and what it returns is decided by the transfer alone: the      *)
(* store's revision, or the transfer error.                                *)

(* what the invocation returns, as decided by hashing, Lookup and the      *)
(* transfers alone                                                         *)
Outcome(tr) ==
    LET xs == Transfers(tr)
        rs == {j \in Ops(tr, "return") : \A i \in xs : i < j}
    IN IF xs # {}
       THEN IF rs = {} THEN [rev |-> 0, err |-> "pending"]
            ELSE LET j == CHOOSE j \in rs : TRUE
                 IN [rev |-> tr[j].id, err |-> tr[j].err]
       ELSE IF tr # <<>> /\ Last(tr).op \in {"hash", "lookup"}
                         /\ Last(tr).err = ErrOther
            THEN [rev |-> 0, err |-> ErrOther]
            ELSE [rev |-> 0, err |-> "pending"]

(* the bookkeeping operations that returned an error *)
BookkeepingErrors(tr) ==
    {i \in DOMAIN tr : /\ tr[i].op \in {"sweep", "update", "remove"}
                       /\ tr[i].err # NoErr}

C10_BookkeepingSwallowed ==
    \A p \in Procs :
        (Done(p) /\ BookkeepingErrors(trace[p]) # {}) =>
            result[p] = Outcome(trace[p])

C10_Witness ==
    \E p \in Procs :
        /\ Succeeded(p)
        /\ result[p].rev > 0
        /\ \E i \in BookkeepingErrors(trace[p]) : trace[p][i].op = "sweep"
        /\ \E i \in BookkeepingErrors(trace[p]) : trace[p][i].op = "update"
        /\ \E i \in BookkeepingErrors(trace[p]) : trace[p][i].op = "remove"

----------------------------------------------------------------------------
(* C11: only "upload not found" is recovered locally.  When the first      *)
(* transfer (ResumeUploadResource) fails with any other error, no second   *)
(* transfer is made and the invocation ends with that error and no         *)
(* revision; UploadResource is called only right after the first transfer  *)
(* returned "upload not found".                                            *)

(* the returns of the first transfer *)
FirstReturns(tr) ==
    {j \in Ops(tr, "return") : \A i \in Ops(tr, "upload") : j < i}

C11_OnlyNotFoundRecovered ==
    \A p \in Procs :
        LET tr == trace[p]
        IN /\ \A j \in FirstReturns(tr) :
                 tr[j].err \notin {NoErr, ErrUploadNotFound} =>
                    /\ Transfers(tr) = Ops(tr, "resume")
                    /\ Cardinality(Transfers(tr)) = 1
                    /\ Failed(p)
                    /\ result[p] = [rev |-> 0, err |-> tr[j].err]
           /\ \A i \in Ops(tr, "upload") :
                 /\ i > 2
                 /\ tr[i - 1].op = "return"
                 /\ tr[i - 1].err = ErrUploadNotFound
                 /\ tr[i - 2].op = "resume"

C11_Witness ==
    \E p \in Procs :
        /\ Failed(p)
        /\ Found(trace[p]) # {}
        /\ OkOps(trace[p], "update") # {}
        /\ Last(trace[p]).op = "return"
        /\ Last(trace[p]).err = ErrOther
        /\ Ops(trace[p], "upload") = {}

----------------------------------------------------------------------------
(* C12: Lookup matches only an unexpired entry whose three key parts all   *)
(* equal the arguments.  Every step of an invocation from its Lookup to    *)
(* its first transfer takes its uploadId from a cache entry stored under   *)
(* (p.charmId, p.resourceName, contentHash) that is at most 48 hours old,  *)
(* or leaves uploadId empty; and the first transfer passes exactly that    *)
(* uploadId to the store.  This holds also after an expiry sweep that      *)
(* failed and left stale entries in the cache.                             *)

(* the entries Lookup may answer with for invocation p *)
FreshKeyEntries(p) ==
    {e \in KeyEntries(cache, p) :
        now - e.CreatedAt <= uploadIdCacheExpiryDuration}

C12_LookupStep(p) ==
    (pc[p] = "lookup" /\ pc'[p] # "lookup") =>
        /\ uploadId'[p] # NoUploadId =>
              \E e \in FreshKeyEntries(p) : e.UploadId = uploadId'[p]
        /\ FreshKeyEntries(p) = {} => uploadId'[p] = NoUploadId

C12_ResumeStep(p) ==
    (pc[p] = "call1" /\ pc'[p] # "call1") =>
        \E i \in Ops(trace'[p], "resume") :
            /\ i > Len(trace[p])
            /\ trace'[p][i].id = uploadId[p]

C12_NoStaleResume ==
    [][\A p \in Procs : C12_LookupStep(p) /\ C12_ResumeStep(p)]_vars

(* the sweep failed and left a stale entry of the key in place, next to    *)
(* entries that differ from the key in the charm, in the resource name and *)
(* in the content hash; Lookup reported NotFound and the transfer started  *)
(* with an empty uploadId                                                  *)
C12_Witness ==
    \E p \in Procs :
        /\ \E e \in cache : /\ e.CharmId # param[p].charmId
                             /\ e.ResourceName = param[p].resourceName
                             /\ e.Sha256 = contentHash[p]
        /\ \E e \in cache : /\ e.CharmId = param[p].charmId
                             /\ e.ResourceName # param[p].resourceName
                             /\ e.Sha256 = contentHash[p]
        /\ \E e \in cache : /\ e.CharmId = param[p].charmId
                             /\ e.ResourceName = param[p].resourceName
                             /\ e.Sha256 # contentHash[p]
        /\ \E i \in Ops(trace[p], "sweep") : trace[p][i].err = ErrOther
        /\ \E e \in KeyEntries(cache, p) : Expired(e, now)
        /\ \E i \in Ops(trace[p], "lookup") :
              trace[p][i].err = errCacheEntryNotFound
        /\ \E i \in Ops(trace[p], "resume") : trace[p][i].id = NoUploadId
        /\ Ops(trace[p], "update") = {}

----------------------------------------------------------------------------
(* C13: Update followed immediately by Lookup with the same key returns    *)
(* the identifier just stored.  Whenever the callback's Update(U, K)       *)
(* succeeds, Lookup(K) on the resulting cache returns exactly one entry,   *)
(* its uploadId is U, whether K had no entry before or an entry with       *)
(* another uploadId, and the entries of all other keys are unchanged.      *)

OtherEntries(c, p) == c \ KeyEntries(c, p)

(* the step is a successful Update made by the callback of invocation p *)
UpdateStep(p) ==
    /\ pc[p] \in {"cb1", "cb2"}
    /\ Len(trace'[p]) = Len(trace[p]) + 1
    /\ Last(trace'[p]).op = "update"
    /\ Last(trace'[p]).err = NoErr

C13_UpdateThenLookup ==
    [][\A p \in Procs : UpdateStep(p) =>
          /\ \E e \in cache' :
                /\ Lookup(cache', param[p].charmId, param[p].resourceName,
                          contentHash[p], now') = {e}
                /\ e.UploadId = cbId[p]
          /\ OtherEntries(cache', p) = OtherEntries(cache, p)]_vars

(* an overwrite: Lookup found an identifier under the key, the store       *)
(* rejected it, and the fresh upload's identifier replaced it, next to an  *)
(* entry of another key                                                    *)
C13_Witness ==
    \E p \in Procs :
        /\ Found(trace[p]) # {}
        /\ ResumeRejected(trace[p])
        /\ Last(trace[p]).op = "update"
        /\ Last(trace[p]).err = NoErr
        /\ Last(trace[p]).id # uploadId[p]
        /\ \E e \in KeyEntries(cache, p) : e.UploadId = Last(trace[p]).id
        /\ OtherEntries(cache, p) # {}

----------------------------------------------------------------------------
(* C14: the expiry sweep.  A RemoveExpiredEntries that succeeds removes    *)
(* exactly the entries older than 48 hours and leaves the others as they   *)
(* were; after any sweep, Lookup of the key of an entry older than 48      *)
(* hours finds nothing; and every invocation with a cache configured runs  *)
(* the sweep as its first operation, an invocation without one never.      *)

(* the step is the sweep of invocation p *)
SweepStep(p) ==
    /\ pc[p] = "sweep"
    /\ pc'[p] # "sweep"

(* the sweep is the first operation of every invocation that has a cache *)
SweepFirst(p) ==
    /\ (uploadIdCache(p) /\ pc[p] \notin {"idle", "sweep", "done"}) =>
          trace[p] # <<>>
    /\ (uploadIdCache(p) /\ trace[p] # <<>>) =>
          Ops(trace[p], "sweep") = {1}
    /\ ~uploadIdCache(p) => Ops(trace[p], "sweep") = {}

C14_ExpirySweep ==
    [][\A p \in Procs :
          /\ SweepFirst(p)'
          /\ SweepStep(p) =>
                /\ Last(trace'[p]).op = "sweep"
                /\ Last(trace'[p]).err = NoErr =>
                      cache' = {e \in cache :
                                   now - e.CreatedAt
                                       <= uploadIdCacheExpiryDuration}
                /\ cache' \subseteq cache
                /\ \A e \in cache :
                      now - e.CreatedAt > uploadIdCacheExpiryDuration =>
                          Lookup(cache', e.CharmId, e.ResourceName,
                                 e.Sha256, now') = {}]_vars

(* a sweep has removed an entry older than 48 hours and has left a younger *)
(* one, of another key, in the cache                                       *)
C14_Witness ==
    \E p \in Procs :
        /\ pc[p] = "hash"
        /\ Last(trace[p]) = Op("sweep", 1, NoErr, 0)
        /\ prev[p].ran
        /\ prev[p].updId # NoUploadId
        /\ \E e \in cache : /\ e.UploadId = prev[p].updId
                            /\ ~SameKey(e, param[p].charmId,
                                        param[p].resourceName,
                                        SHA256(param[p].content))
                            /\ now - e.CreatedAt <= uploadIdCacheExpiryDuration

----------------------------------------------------------------------------
(* C15: Remove of a key that has no entry is not an error and leaves the   *)
(* cache unchanged.  No Remove ever returns "cache entry not found"; the   *)
(* Remove an invocation makes after a successful upload, when its key has  *)
(* no entry, leaves the cache as it was, and the invocation returns the    *)
(* store's revision.                                                       *)

(* the step is the Remove of invocation p, for a key that has no entry *)
RemoveAbsentStep(p) ==
    /\ pc[p] = "remove"
    /\ pc'[p] # "remove"
    /\ uploadIdCache(p)
    /\ KeyEntries(cache, p) = {}

C15_RemoveIdempotent ==
    [][\A p \in Procs :
          /\ \A i \in Ops(trace'[p], "remove") :
                trace'[p][i].err # errCacheEntryNotFound
          /\ RemoveAbsentStep(p) =>
                /\ cache' = cache
                /\ Last(trace'[p]).op = "remove"
                /\ Succeeded(p)'
                /\ result'[p].rev = rev[p]]_vars

(* an upload for which no entry was ever created has succeeded; its Remove *)
(* returned no error and the entries of the other keys are still there     *)
C15_Witness ==
    \E p \in Procs :
        /\ Succeeded(p)
        /\ uploadIdCache(p)
        /\ Found(trace[p]) = {}
        /\ Ops(trace[p], "update") = {}
        /\ Last(trace[p]) = Op("remove", 0, NoErr, 0)
        /\ \E i \in Ops(trace[p], "sweep") : trace[p][i] = Op("sweep", 0, NoErr, 0)
        /\ Cardinality(cache) = Len(SeedKeys) - 1

----------------------------------------------------------------------------
(* C16: the content hasher leaves the read position of the source at byte  *)
(* zero when it returns.                                                   *)

(* C16 as stated: at byte zero both when a digest and when an error is     *)
(* returned                                                                *)
C16_Original ==
    hPc = "done" => rPos = 0

(* C16 as amended: when readSeekerSHA256 returns a digest, the digest      *)
(* covers the whole source and the read position is at byte zero; when it  *)
(* returns an error it returns no digest and has not reset the position:   *)
(* after a failed read the position is where the reading stopped, after a  *)
(* failed Seek it is wherever the source left it.                          *)
C16_PositionReset ==
    hPc = "done" =>
        IF hResult.err = NoErr
        THEN /\ rPos = 0
             /\ hResult.sum = SHA256(rContent)
        ELSE /\ hResult.sum = NoHash
             /\ hResult.failed = "Copy" =>
                   /\ rPos = Len(hashed)
                   /\ hashed = SubSeq(rContent, 1, rPos)
             /\ hResult.failed = "Seek" =>
                   /\ hashed = rContent
                   /\ rPos \in 0..Len(rContent)

C16_Witness ==
    /\ hPc = "done"
    /\ hResult.err = NoErr
    /\ rPos = 0
    /\ Len(rContent) > 1
    /\ hashed = rContent

----------------------------------------------------------------------------
(* Vocabulary of the properties of the digest resolution *)

(* the manifest HEAD requests made so far, in order *)
Heads == {i \in DOMAIN requests : requests[i].method = "HEAD"}

FirstHead == CHOOSE i \in Heads : \A j \in Heads : i <= j

(* the exchange got a response, and its status is 200 *)
Answered200(i) ==
    /\ requests[i].err = NoErr
    /\ requests[i].resp.status = 200

(* the value of the API version header starts with "registry/2." *)
V2Version(v) ==
    /\ Len(v) >= 3
    /\ v[1] = "registry/"
    /\ v[2] = "2"
    /\ v[3] = "."

(* the response of exchange i passes the validation of a manifest HEAD *)
PassesValidation(i) ==
    /\ Answered200(i)
    /\ V2Version(requests[i].resp.version)
    /\ requests[i].resp.digest # ""

(* imageDigestForReference has returned a digest / an error *)
Resolved == dResult.digest # ""
ResolveFailed == dPc = "done" /\ dResult.digest = ""

(* the reference carries a tag, or nothing, but no digest *)
TagOnly == dPc # "idle" /\ ref.digest = ""

----------------------------------------------------------------------------
(* C17: the digest double-check.  For a reference without a digest, the    *)
(* resolution succeeds only after two HEAD lookups, by tag and then by the *)
(* digest the first response reported, that both returned status 200; a    *)
(* second lookup that does not return 200 makes it fail.                   *)

(* the resolution made the two lookups, and both returned 200 *)
C17_BothOK ==
    \E h1, h2 \in Heads :
        /\ Heads = {h1, h2}
        /\ h1 < h2
        /\ PassesValidation(h1)
        /\ Answered200(h2)
        /\ requests[h1].url = ManifestURL(ref, referenceTagOrDigest(ref))
        /\ requests[h2].url = ManifestURL(ref, requests[h1].resp.digest)
        /\ dResult.digest = requests[h1].resp.digest

(* the second lookup was made and did not return 200 *)
C17_SecondNot200 ==
    \E h1, h2 \in Heads : h1 < h2 /\ ~Answered200(h2)

(* the two lookups reported the same digest *)
C17_SameDigest ==
    \A h1, h2 \in Heads :
        requests[h1].resp.digest = requests[h2].resp.digest

(* C17 as stated: ... and report identical digest values; a second lookup  *)
(* that reports another digest than the first makes the resolution fail.   *)
C17_Original ==
    TagOnly =>
        /\ Resolved => (C17_BothOK /\ C17_SameDigest)
        /\ (C17_SecondNot200 \/ ~C17_SameDigest) => ResolveFailed

(* C17 as amended: both lookups must return 200, the first with a          *)
(* v2-compatible version header and a digest; the digest returned is the   *)
(* one the first response reported; the digest of the second response is   *)
(* not examined.                                                           *)
C17_DoubleCheck ==
    TagOnly =>
        /\ Resolved => C17_BothOK
        /\ C17_SecondNot200 => ResolveFailed

C17_Witness ==
    /\ TagOnly
    /\ ref.tag # ""
    /\ Resolved
    /\ C17_BothOK
    /\ C17_SameDigest
    /\ dResult.rev > 0

----------------------------------------------------------------------------
(* C18: for a reference that carries a digest, once the first manifest     *)
(* HEAD has passed the validation the resolution is over: one HEAD request *)
(* has been made, no other follows, and the digest returned is the digest  *)
(* of the reference.                                                       *)
C18_CanonicalStops ==
    (dPc # "idle" /\ ref.digest # "" /\ Heads # {}
        /\ PassesValidation(FirstHead) /\ dPc # "validate") =>
            /\ Cardinality(Heads) = 1
            /\ dPc \in {"register", "done"}
            /\ dResult.digest = ref.digest

C18_Witness ==
    /\ dPc = "done"
    /\ ref.digest # ""
    /\ ref.tag # ""
    /\ Heads # {}
    /\ PassesValidation(FirstHead)
    /\ Cardinality(Heads) = 1
    /\ dResult = [digest |-> ref.digest, rev |-> 1, err |-> NoErr]

----------------------------------------------------------------------------
(* C19: the digest of every successful resolution, and so the digest       *)
(* registered with the store, equals the Docker-Content-Digest value of    *)
(* the validated HEAD response.                                            *)
C19_Original ==
    /\ Resolved => dResult.digest = requests[FirstHead].resp.digest
    /\ \A i \in DOMAIN registered :
          registered[i].digest = requests[FirstHead].resp.digest

----------------------------------------------------------------------------
(* C20: a failure of the resolution is fatal and registers nothing.  When  *)
(* a request fails at the HTTP level, or a manifest HEAD returns another   *)
(* status than 200, or the first manifest HEAD response has no             *)
(* v2-compatible version header or no digest, the resolution returns an    *)
(* error, the failed request is the last one made, no request was made     *)
(* twice, and AddDockerResource is not called.                             *)

(* exchange i failed *)
FailedExchange(i) ==
    \/ requests[i].err # NoErr
    \/ i \in Heads /\ ~Answered200(i)
    \/ i \in Heads /\ i = FirstHead /\ ~PassesValidation(i)

C20_FailureIsFatal ==
    \A i \in DOMAIN requests :
        (FailedExchange(i) /\ dPc # "validate") =>
            /\ dPc = "done"
            /\ dResult = [digest |-> "", rev |-> 0, err |-> ErrOther]
            /\ i = Len(requests)
            /\ \A j, k \in DOMAIN requests :
                  ([requests[j] EXCEPT !.resp = NoResp, !.err = NoErr]
                     = [requests[k] EXCEPT !.resp = NoResp, !.err = NoErr])
                      => j = k
            /\ registered = <<>>

(* the first HEAD returned 200 and a digest, but its version header is not *)
(* v2-compatible: the resolution failed and nothing was registered         *)
C20_Witness ==
    /\ dPc = "done"
    /\ Heads # {}
    /\ Answered200(FirstHead)
    /\ requests[FirstHead].resp.digest # ""
    /\ requests[FirstHead].resp.version = <<"registry/", "2">>
    /\ dResult.err = ErrOther
    /\ registered = <<>>

----------------------------------------------------------------------------
(* C21: the first manifest HEAD request is addressed by the digest of the  *)
(* reference whenever the reference carries one (with or without a tag),   *)
(* otherwise by its tag, the default tag "latest" when it has none; it is  *)
(* sent after the unauthenticated request to the API root and carries the  *)
(* authorization for "pull" on the path.                                   *)

(* what the claim says the first manifest HEAD is addressed by *)
C21_Addressed ==
    IF ref.digest # "" THEN ref.digest
    ELSE IF ref.tag # "" THEN ref.tag ELSE "latest"

C21_Original ==
    Heads # {} =>
        /\ requests[FirstHead].url = ManifestURL(ref, C21_Addressed)
        /\ requests[FirstHead].auth
        /\ FirstHead = 2
        /\ requests[1].method = "GET"
        /\ requests[1].url = registryEndpointForReference(ref)
        /\ ~requests[1].auth
        /\ requests[1].err = NoErr

----------------------------------------------------------------------------
(* C22: serverURL returns the value of JUJU_CHARMSTORE whenever the        *)
(* variable is set to a non-empty string, and the default server URL (the  *)
(* variable csclientServerURL) when it is unset or empty; every client     *)
(* that newCharmStoreClient creates has that URL.                          *)

(* the step is a newCharmStoreClient that returned a client *)
ClientStep ==
    /\ csClient' # csClient
    /\ csClient'.err = NoErr

C22_ServerURL ==
    [][ClientStep =>
          /\ (environ.set /\ environ.value # "") =>
                csClient'.URL = environ.value
          /\ (~environ.set \/ environ.value = "") =>
                csClient'.URL = csclientServerURL]_vars

(* the variable is set and the default is patched to an invalid URL: the   *)
(* client talks to the URL of the variable                                 *)
C22_Witness ==
    /\ csClient.made
    /\ csClient.err = NoErr
    /\ environ.set
    /\ environ.value # ""
    /\ csClient.URL = environ.value
    /\ csclientServerURL = "invalid-url"

----------------------------------------------------------------------------
(* C23: uploadResource selects the function by the declared type of the    *)
(* resource: a file resource goes to uploadFileResource and never to a     *)
(* registry; a docker resource never goes to uploadFileResource, and with  *)
(* a reference "external::" followed by a valid image name it goes to      *)
(* uploadExternalDockerResource, which only asks the registry for the      *)
(* digest and registers that digest, without a push.  A resource name that *)
(* the metadata does not declare, or a type other than file and docker,    *)
(* yields an error with no cache operation and no call to the store or a   *)
(* registry.                                                               *)

(* no cache operation, no call to the store, no call to a registry *)
C23_NoCalls ==
    /\ \A p \in Procs : pc[p] = "idle" /\ trace[p] = <<>>
    /\ cache = {SeedEntry(r[1]) : r \in recorded}
    /\ revision = 0
    /\ dPc = "idle"
    /\ requests = <<>>
    /\ registered = <<>>

C23_Declared(type) == <<driver.resourceName, type>> \in driver.meta

C23_External ==
    /\ Len(driver.reference) = 2
    /\ driver.reference[1] = "external::"
    /\ \E n \in ImageNames : driver.reference[2] = n.name

----------------------------------------------------------------------------
(* C24: when hashing the content fails, or Lookup fails with an error      *)
(* other than errCacheEntryNotFound, the invocation ends in failure at     *)
(* that point: no transfer call is made to the store and no Update and no  *)
(* Remove is performed.  A first transfer call without an uploadId (a      *)
(* fresh upload) follows a Lookup only when it answered                    *)
(* errCacheEntryNotFound; after a Lookup that found an entry the first     *)
(* call carries the uploadId of that entry.                                *)

(* the hash and Lookup operations that failed, not-found apart *)
C24_Failures(tr) ==
    {i \in Ops(tr, "hash") \cup Ops(tr, "lookup") :
        tr[i].err \notin {NoErr, errCacheEntryNotFound}}

C24_FailsBeforeTransfer ==
    \A p \in SeqProcs :
        LET tr == trace[p]
        IN /\ \A i \in C24_Failures(tr) :
                 /\ i = Len(tr)
                 /\ Failed(p)
                 /\ result[p].rev = 0
                 /\ Transfers(tr) = {}
                 /\ Ops(tr, "update") = {}
                 /\ Ops(tr, "remove") = {}
           /\ \A i \in Ops(tr, "lookup"), j \in Ops(tr, "resume") :
                 /\ i < j
                 /\ tr[i].err \in {NoErr, errCacheEntryNotFound}
                 /\ tr[j].id = NoUploadId <=>
                        tr[i].err = errCacheEntryNotFound
                 /\ tr[i].err = NoErr => tr[j].id = tr[i].id

(* Lookup failed with another error while the cache held an entry of the   *)
(* key, and the invocation has ended                                       *)
C24_Witness ==
    \E p \in SeqProcs :
        /\ Ops(trace[p], "lookup") # {}
        /\ C24_Failures(trace[p]) = {Len(trace[p])}
        /\ Last(trace[p]).op = "lookup"
        /\ KeyEntries(cache, p) # {}
        /\ Failed(p)

----------------------------------------------------------------------------
(* Vocabulary of the concurrent invocations *)

(* the cache key of invocation p *)
Key(p) ==
    <<param[p].charmId, param[p].resourceName, SHA256(param[p].content)>>

(* the entries of key k in cache c *)
EntriesOf(c, k) == {e \in c : SameKey(e, k[1], k[2], k[3])}

(* invocation p has begun and uses the cache file *)
Caching(p) == pc[p] # "idle" /\ uploadIdCache(p)

(* the step is a step of invocation p *)
StepOf(p) == pc'[p] # pc[p] \/ trace'[p] # trace[p]

(* the uploadId of the last Update of p that was written *)
LastUpdate(p) ==
    LET upd == OkOps(trace[p], "update")
    IN trace[p][CHOOSE i \in upd : \A j \in upd : j <= i].id

(* the sweep of another invocation removed entries *)
SweptByOther(p) ==
    \E q \in Procs \ {p} :
        \E i \in Ops(trace[q], "sweep") : trace[q][i].id > 0

(* every other caching invocation has another key than p *)
AloneOnKey(p) ==
    \A q \in Procs \ {p} : Caching(q) => Key(q) # Key(p)

----------------------------------------------------------------------------
(* C25: two invocations that run concurrently on one cache file with       *)
(* different keys do not interfere: no cache operation of one changes or   *)
(* removes the entry of the other, except that its sweep removes the entry *)
(* once it is older than the expiry duration; a Remove deletes entries of  *)
(* its own key only; and the step in which an invocation fails leaves its  *)
(* entry alone, so that, unless a sweep of another invocation removed      *)
(* entries, a failed invocation that wrote an uploadId still finds it in   *)
(* the cache.                                                              *)

(* a Remove of q deletes entries of the key of q only *)
C25_RemoveOwnKey(q) ==
    StepOf(q) /\ pc[q] = "remove" =>
        /\ cache' \subseteq cache
        /\ cache \ cache' \subseteq EntriesOf(cache, Key(q))

(* the step in which p fails leaves the entries of its key alone *)
C25_FailureKeeps(p) ==
    StepOf(p) /\ Caching(p) /\ pc'[p] = "done" /\ result'[p].err # NoErr =>
        EntriesOf(cache', Key(p)) = EntriesOf(cache, Key(p))

(* a failed invocation that wrote an uploadId finds it in the cache *)
C25_InPlace(p) ==
    Failed(p) /\ Caching(p) /\ OkOps(trace[p], "update") # {}
              /\ AloneOnKey(p) =>
        \E e \in EntriesOf(cache, Key(p)) : e.UploadId = LastUpdate(p)

(* C25 as stated: no cache operation of the other, the sweep included,     *)
(* touches the entry.                                                      *)
C25_Original ==
    [][\A p \in Procs : \A q \in Procs \ {p} :
          /\ Caching(p) /\ Caching(q) /\ Key(p) # Key(q) /\ StepOf(q) =>
                EntriesOf(cache', Key(p)) = EntriesOf(cache, Key(p))
          /\ C25_RemoveOwnKey(q)
          /\ C25_FailureKeeps(p)]_vars

C25_NoInterference ==
    [][\A p \in Procs : \A q \in Procs \ {p} :
          /\ Caching(p) /\ Caching(q) /\ Key(p) # Key(q) /\ StepOf(q) =>
                \/ EntriesOf(cache', Key(p)) = EntriesOf(cache, Key(p))
                \/ /\ pc[q] = "sweep"
                   /\ EntriesOf(cache', Key(p)) \subseteq
                          EntriesOf(cache, Key(p))
                   /\ \A e \in EntriesOf(cache, Key(p)) \ cache' :
                          Expired(e, now)
          /\ C25_RemoveOwnKey(q)
          /\ C25_FailureKeeps(p)
          /\ (~SweptByOther(p))' => C25_InPlace(p)']_vars

(* two invocations with different keys on one cache file: one has ended    *)
(* with success and its Remove, the other wrote its uploadId while the     *)
(* first was running and has failed, and its entry is in the cache         *)
C25_Witness ==
    \E p \in Procs : \E q \in Procs \ {p} :
        /\ Caching(p) /\ Caching(q) /\ Key(p) # Key(q)
        /\ Failed(p)
        /\ OkOps(trace[p], "update") # {}
        /\ Succeeded(q)
        /\ OkOps(trace[q], "update") # {}
        /\ OkOps(trace[q], "remove") # {}
        /\ EntriesOf(cache, Key(q)) = {}
        /\ \E e \in EntriesOf(cache, Key(p)) : e.UploadId = LastUpdate(p)

----------------------------------------------------------------------------
(* C26: concurrent invocations with the same key race on the cached        *)
(* uploadId, but under every interleaving: an Update that is written       *)
(* leaves exactly its uploadId in the entry of the key and no other step   *)
(* changes or adds an entry, so the entry always holds the uploadId        *)
(* written last; once all of them have ended with success and none of      *)
(* their Removes failed, the cache holds no entry of the key; and no       *)
(* invocation makes more than two transfer calls.                          *)

(* the invocations that share the key of p *)
C26_Group(p) == {q \in Procs : Caching(q) /\ Key(q) = Key(p)}

(* the step is an Update of q that was written *)
C26_Written(q) ==
    /\ pc[q] \in {"cb1", "cb2"}
    /\ StepOf(q)
    /\ Len(trace'[q]) = Len(trace[q]) + 1
    /\ trace'[q][Len(trace'[q])].op = "update"
    /\ trace'[q][Len(trace'[q])].err = NoErr

C26_LastWritten ==
    \A p \in Procs :
        Caching(p) =>
            IF \E q \in C26_Group(p) : C26_Written(q)
            THEN \E q \in C26_Group(p) :
                    /\ C26_Written(q)
                    /\ \E e \in cache' :
                          /\ EntriesOf(cache', Key(p)) = {e}
                          /\ e.UploadId = cbId[q]
            ELSE EntriesOf(cache', Key(p)) \subseteq EntriesOf(cache, Key(p))

C26_Racing(p) ==
    /\ Caching(p)
    /\ Cardinality(C26_Group(p)) >= 2
    /\ \A q \in C26_Group(p) : Succeeded(q)

C26_TwoTransfers ==
    \A p \in Procs : Cardinality(Transfers(trace[p])) <= 2

(* C26 as stated: once both have ended with success the cache holds no     *)
(* entry of the key.                                                       *)
C26_Original ==
    /\ [](/\ \A p \in Procs :
                C26_Racing(p) => EntriesOf(cache, Key(p)) = {}
          /\ C26_TwoTransfers)
    /\ [][C26_LastWritten]_vars

C26_SameKeyRace ==
    /\ [](/\ \A p \in Procs :
                C26_Racing(p)
                    /\ (\A q \in C26_Group(p) :
                           Ops(trace[q], "remove") = OkOps(trace[q], "remove"))
                    => EntriesOf(cache, Key(p)) = {}
          /\ C26_TwoTransfers)
    /\ [][C26_LastWritten]_vars

(* two invocations with the same key have ended with success: the second   *)
(* found the uploadId the first had written and resumed it, both wrote an  *)
(* uploadId, both Removes were carried out, and the entry is gone          *)
C26_Witness ==
    \E p \in Procs : \E q \in Procs \ {p} :
        /\ C26_Racing(p)
        /\ q \in C26_Group(p)
        /\ OkOps(trace[p], "update") # {}
        /\ OkOps(trace[q], "update") # {}
        /\ \E i \in Found(trace[q]) : trace[q][i].id = LastUpdate(p)
        /\ OkOps(trace[p], "remove") # {}
        /\ OkOps(trace[q], "remove") # {}
        /\ EntriesOf(cache, Key(p)) = {}

====
